---- MODULE Spec2Model ----
(***************************************************************************)
(* IbcCommand::execute (solo-machine/src/command/ibc.rs).                  *)
(*                                                                         *)
(* One invocation of execute: an unbounded mpsc channel of Events, the     *)
(* Renderer task spawned on its receiving end, the Orchestrator            *)
(* (IbcService) holding its sending end, and the reconciliation of both    *)
(* outcomes into the Result that execute returns.                          *)
(***************************************************************************)
EXTENDS Naturals, Sequences, FiniteSets

VARIABLES
    cmd,            \* the IbcCommand variant being executed (self)
    key,            \* UpdateSigner: the new_public_key argument (input class)
    algo,           \* UpdateSigner: the public_key_algo argument
    ethermint,      \* the build has the "ethermint" feature
    amount,         \* Send / Receive: the amount argument
    denom,          \* Send / Receive: the denom argument (input class)
    script,         \* events the invoked flow emits, in order, when no step fails
    opc,            \* Orchestrator position inside the block of lines 328-380
    ostatus,        \* Orchestrator outcome: "running", "ok", "failed"
    oerror,         \* the error the Orchestrator block produced ("none" if none)
    emitted,        \* events handed to sender.send so far
    queue,          \* the channel's buffer
    senderAlive,    \* the sending handle (inside ibc_service) is not dropped yet
    receiverAlive,  \* the receiving handle (inside the Renderer task) is not dropped yet
    rpc,            \* Renderer position: "recv", "render", "done", "failed"
    cur,            \* the event the Renderer is rendering
    taken,          \* events receiver.recv() has yielded so far
    rendered,       \* events written to stdout so far
    rerror,         \* the error the Renderer task returned ("none" if none)
    pc,             \* execute's position: "service", "join", "returned"
    result          \* what execute returned ("pending" before it returns)

\* The invocation's arguments and build, fixed for the invocation.
Args == <<cmd, key, algo, ethermint, amount, denom, script>>

vars == <<cmd, key, algo, ethermint, amount, denom, script, opc, ostatus, oerror, emitted, queue, senderAlive,
          receiverAlive, rpc, cur, taken, rendered, rerror, pc, result>>

----------------------------------------------------------------------------
(* Bounds *)

\* Longest event script drawn for the specification that feeds the Renderer
\* arbitrary events.
MaxScript == 2

\* Largest amount drawn for Send and Receive (the argument is a u32).
MaxAmount == 2

----------------------------------------------------------------------------
(* Events *)

\* The variants the Renderer's match has an arm for (lines 108-320).
IbcVocabulary ==
    { "TokensSent", "TokensReceived", "SignerUpdated",
      "CreatedSoloMachineClient", "CreatedTendermintClient",
      "InitializedConnectionOnTendermint", "InitializedConnectionOnSoloMachine",
      "ConfirmedConnectionOnTendermint", "ConfirmedConnectionOnSoloMachine",
      "InitializedChannelOnTendermint", "InitializedChannelOnSoloMachine",
      "ConfirmedChannelOnTendermint", "ConfirmedChannelOnSoloMachine",
      "ConnectionEstablished" }

\* Stands for every Event variant that only the catch-all arm matches (line 321).
NonIbcEvent == "NonIbcEvent"

Event == IbcVocabulary \cup {NonIbcEvent}

\* The milestones of the Connect flow, in the order IbcService::connect emits them.
ConnectEvents ==
    << "CreatedSoloMachineClient", "CreatedTendermintClient",
       "InitializedConnectionOnSoloMachine", "InitializedConnectionOnTendermint",
       "ConfirmedConnectionOnTendermint", "ConfirmedConnectionOnSoloMachine",
       "InitializedChannelOnTendermint", "InitializedChannelOnSoloMachine",
       "ConfirmedChannelOnTendermint", "ConfirmedChannelOnSoloMachine",
       "ConnectionEstablished" >>

Commands == {"Connect", "Send", "Receive", "UpdateSigner"}

\* The entry point of IbcService that each arm of `match self` awaits.
DispatchCrossed(c) ==
    CASE c = "Connect"      -> "connect"
      [] c = "Send"         -> "receive_from_chain"
      [] c = "Receive"      -> "send_to_chain"
      [] c = "UpdateSigner" -> "update_signer"
Dispatch(c) ==
    CASE c = "Connect"      -> "connect"
      [] c = "Send"         -> "send_to_chain"
      [] c = "Receive"      -> "receive_from_chain"
      [] c = "UpdateSigner" -> "update_signer"

\* The events each entry point of IbcService emits when no step fails.
MethodEvents(m) ==
    CASE m = "connect"            -> ConnectEvents
      [] m = "send_to_chain"      -> << "TokensSent" >>
      [] m = "receive_from_chain" -> << "TokensReceived" >>
      [] m = "update_signer"      -> << "SignerUpdated" >>

\* The events of the flow that command c runs.
FlowEvents(c) == MethodEvents(Dispatch(c))

\* The success milestone of each command: the last event of its flow.
SuccessMilestone(c) ==
    CASE c = "Connect"      -> "ConnectionEstablished"
      [] c = "Send"         -> "TokensSent"
      [] c = "Receive"      -> "TokensReceived"
      [] c = "UpdateSigner" -> "SignerUpdated"

Range(f) == { f[i] : i \in DOMAIN f }

----------------------------------------------------------------------------
(* UpdateSigner's argument *)

\* new_public_key by what the two conversions of lines 363-367 make of it.
KeyInputs == {"not_hex", "hex_not_point", "hex_point"}

\* hex::decode(&new_public_key)
HexDecode(k) == IF k = "not_hex" THEN "err" ELSE "bytes"

\* VerifyingKey::from_sec1_bytes(&new_public_key_bytes)
FromSec1BytesAny(k) == "key"
FromSec1Bytes(k) == IF k = "hex_point" THEN "key" ELSE "err"

\* PUBLIC_KEY_ALGO_VARIANTS (line 18): the values --public-key-algo accepts.
PUBLIC_KEY_ALGO_VARIANTS == {"secp256k1", "eth-secp256k1"}

\* What a command line may give as public_key_algo.
AlgoArgs == {"secp256k1", "eth-secp256k1", "ed25519"}

\* The variants of PublicKeyAlgo the build has: the arms of the match of
\* lines 369-373, the second one only with the "ethermint" feature.
EnabledVariantsUngated(eth) == {"secp256k1", "eth-secp256k1"}
EnabledVariants(eth) ==
    IF eth THEN {"secp256k1", "eth-secp256k1"} ELSE {"secp256k1"}

\* The public_key_algo argument as a PublicKeyAlgo: possible_values (line 81)
\* rejects a value outside PUBLIC_KEY_ALGO_VARIANTS, and the conversion to
\* PublicKeyAlgo rejects a variant the build does not have.
ParseAlgo(a, eth) ==
    IF a \notin PUBLIC_KEY_ALGO_VARIANTS THEN "err"
    ELSE IF a \notin EnabledVariants(eth) THEN "err"
    ELSE a

\* denom by what the construction of an Identifier makes of it.
DenomArgs == {"valid", "malformed"}

\* The denom argument as an Identifier: rejected at construction if malformed.
ParseDenom(d) == IF d = "malformed" THEN "err" ELSE d

\* The amount check of send_to_chain / receive_from_chain.
AmountValid(a) == a > 0

\* Whether the arguments of command c reach execute.
ArgsParse(c, a, eth, d) ==
    CASE c = "UpdateSigner"          -> ParseAlgo(a, eth) # "err"
      [] c \in {"Send", "Receive"}   -> ParseDenom(d) # "err"
      [] OTHER                       -> TRUE

----------------------------------------------------------------------------
(* The channel *)

IsPrefix(s, t) == Len(s) <= Len(t) /\ SubSeq(t, 1, Len(s)) = s

\* unbounded_channel(): a send never waits for room.
SendReadyBounded(q) == Len(q) < 2
SendReady(q) == TRUE

\* sender.send(ev): the buffer after the send; a send to a dropped receiver
\* hands the event back and buffers nothing.
SendTwice(q, rxAlive, ev) == IF rxAlive THEN Append(Append(q, ev), ev) ELSE q
Send(q, rxAlive, ev) == IF rxAlive THEN Append(q, ev) ELSE q

\* receiver.recv().await: the oldest buffered event; end-of-stream once the
\* buffer is empty and the sender is dropped; pending otherwise.
RecvNewest(q, txAlive) ==
    IF q # <<>> THEN [kind |-> "some", ev |-> q[Len(q)], rest |-> SubSeq(q, 1, Len(q) - 1)]
    ELSE IF ~txAlive THEN [kind |-> "none", ev |-> "none", rest |-> q]
    ELSE [kind |-> "pending", ev |-> "none", rest |-> q]
RecvClosedFirst(q, txAlive) ==
    IF ~txAlive THEN [kind |-> "none", ev |-> "none", rest |-> <<>>]
    ELSE IF q # <<>> THEN [kind |-> "some", ev |-> Head(q), rest |-> Tail(q)]
    ELSE [kind |-> "pending", ev |-> "none", rest |-> q]
Recv(q, txAlive) ==
    IF q # <<>> THEN [kind |-> "some", ev |-> Head(q), rest |-> Tail(q)]
    ELSE IF ~txAlive THEN [kind |-> "none", ev |-> "none", rest |-> q]
    ELSE [kind |-> "pending", ev |-> "none", rest |-> q]

----------------------------------------------------------------------------
(* The Renderer's match *)

\* The outcome of one iteration of the loop body for event ev, where ioOk says
\* whether every write to stdout of that arm succeeded.
RenderOutcomeNoSigner(ev, ioOk) ==
    IF ev \notin (IbcVocabulary \ {"SignerUpdated"}) THEN "non-ibc event in ibc command"
    ELSE IF ioOk THEN "ok" ELSE "io error"
RenderOutcomeSkip(ev, ioOk) == IF ioOk THEN "ok" ELSE "io error"
RenderOutcomeFlowScoped(ev, ioOk) ==
    IF ev \notin Range(FlowEvents(cmd)) THEN "non-ibc event in ibc command"
    ELSE IF ioOk THEN "ok" ELSE "io error"
RenderOutcome(ev, ioOk) ==
    IF ev \notin IbcVocabulary THEN "non-ibc event in ibc command"
    ELSE IF ioOk THEN "ok" ELSE "io error"

----------------------------------------------------------------------------
(* Reconciliation *)

\* The sending handle after the scope that owns ibc_service is left.
ScopeExitLeak(alive) == alive
ScopeExit(alive) == FALSE

\* The Result execute returns: `?` on the Orchestrator's result (line 379),
\* otherwise the Renderer task's result (line 382).
ExecuteResultIgnoreRenderer(o, r) ==
    IF o = "failed" THEN "orchestrator_error" ELSE "ok"
ExecuteResultRendererFirst(o, r) ==
    IF r = "failed" THEN "renderer_error"
    ELSE IF o = "failed" THEN "orchestrator_error" ELSE "ok"
ExecuteResult(o, r) ==
    IF o = "failed" THEN "orchestrator_error"
    ELSE IF r = "failed" THEN "renderer_error" ELSE "ok"

\* The failures the caller of execute can see: the one error in the Result.
Observable == IF result \in {"pending", "ok"} THEN {} ELSE {result}

----------------------------------------------------------------------------
(* Initial states: the channel is created and the Renderer spawned (101-103) *)

\* Where the arm of `match self` for command c starts.
EntryPc(c) ==
    CASE c = "UpdateSigner"         -> "decode_hex"
      [] c \in {"Send", "Receive"}  -> "check_amount"
      [] OTHER                      -> "work"

\* What does not depend on how the invocation started.
InitState ==
    /\ cmd \in Commands
    /\ ethermint \in BOOLEAN
    /\ key \in (IF cmd = "UpdateSigner" THEN KeyInputs ELSE {"n/a"})
    /\ amount \in (IF cmd \in {"Send", "Receive"} THEN 0..MaxAmount ELSE {0})
    /\ opc = EntryPc(cmd)
    /\ ostatus = "running"
    /\ oerror = "none"
    /\ emitted = <<>>
    /\ queue = <<>>
    /\ cur = "none"
    /\ taken = <<>>
    /\ rendered = <<>>
    /\ rerror = "none"
    /\ result = "pending"

\* execute has been entered: its arguments are values of their types.
InitCommon ==
    /\ InitState
    /\ algo \in (IF cmd = "UpdateSigner" THEN EnabledVariants(ethermint) ELSE {"n/a"})
    /\ denom \in (IF cmd \in {"Send", "Receive"} THEN {"valid"} ELSE {"n/a"})
    /\ senderAlive = TRUE
    /\ receiverAlive = TRUE
    /\ rpc = "recv"
    /\ pc = "service"

Init ==
    /\ InitCommon
    /\ script = FlowEvents(cmd)

\* The Renderer's input is whatever arrives on an UnboundedSender<Event>.
Scripts == UNION { [1..n -> Event] : n \in 1..MaxScript }

InitAny ==
    /\ InitCommon
    /\ script \in Scripts

\* The command line is given and execute is not entered yet: no channel, no
\* Renderer task.
InitCli ==
    /\ InitState
    /\ algo \in (IF cmd = "UpdateSigner" THEN AlgoArgs ELSE {"n/a"})
    /\ denom \in (IF cmd \in {"Send", "Receive"} THEN DenomArgs ELSE {"n/a"})
    /\ script = FlowEvents(cmd)
    /\ senderAlive = FALSE
    /\ receiverAlive = FALSE
    /\ rpc = "unspawned"
    /\ pc = "parse"

----------------------------------------------------------------------------
(* Entering execute *)

\* The arguments are converted to the fields of IbcCommand (lines 21-92); if
\* that fails the invocation is rejected and execute is not called, otherwise
\* execute creates the channel and spawns the Renderer (lines 101-103).
Invoke ==
    /\ pc = "parse"
    /\ IF ArgsParse(cmd, algo, ethermint, denom)
       THEN /\ pc' = "service"
            /\ senderAlive' = TRUE
            /\ receiverAlive' = TRUE
            /\ rpc' = "recv"
       ELSE /\ pc' = "rejected"
            /\ UNCHANGED <<senderAlive, receiverAlive, rpc>>
    /\ UNCHANGED Args
    /\ UNCHANGED <<opc, ostatus, oerror, emitted, queue, cur, taken, rendered,
                   rerror, result>>

----------------------------------------------------------------------------
(* The Orchestrator block *)

OrchVars == <<opc, ostatus, oerror, emitted>>
RendVars == <<rpc, cur, taken, rendered, rerror>>

\* hex::decode(&new_public_key).context("unable to decode hex bytes")?
DecodeHex ==
    /\ pc = "service" /\ ostatus = "running" /\ opc = "decode_hex"
    /\ IF HexDecode(key) = "err"
       THEN /\ ostatus' = "failed"
            /\ oerror' = "unable to decode hex bytes"
            /\ opc' = opc
       ELSE /\ opc' = "from_sec1"
            /\ UNCHANGED <<ostatus, oerror>>
    /\ UNCHANGED Args
    /\ UNCHANGED <<emitted, queue, senderAlive, receiverAlive, pc, result>>
    /\ UNCHANGED RendVars

\* VerifyingKey::from_sec1_bytes(..).context("invalid secp256k1 bytes")?
FromSec1 ==
    /\ pc = "service" /\ ostatus = "running" /\ opc = "from_sec1"
    /\ IF FromSec1Bytes(key) = "err"
       THEN /\ ostatus' = "failed"
            /\ oerror' = "invalid secp256k1 bytes"
            /\ opc' = opc
       ELSE /\ opc' = "work"
            /\ UNCHANGED <<ostatus, oerror>>
    /\ UNCHANGED Args
    /\ UNCHANGED <<emitted, queue, senderAlive, receiverAlive, pc, result>>
    /\ UNCHANGED RendVars

\* send_to_chain / receive_from_chain validate the amount before anything else.
CheckAmount ==
    /\ pc = "service" /\ ostatus = "running" /\ opc = "check_amount"
    /\ IF AmountValid(amount)
       THEN /\ opc' = "work"
            /\ UNCHANGED <<ostatus, oerror>>
       ELSE /\ ostatus' = "failed"
            /\ oerror' = "invalid amount"
            /\ opc' = opc
    /\ UNCHANGED Args
    /\ UNCHANGED <<emitted, queue, senderAlive, receiverAlive, pc, result>>
    /\ UNCHANGED RendVars

\* One protocol step of the awaited flow: it completes, and its milestone is
\* about to be emitted, or it fails and the flow returns the error.
OrchestratorWork ==
    /\ pc = "service" /\ ostatus = "running" /\ opc = "work"
    /\ \E stepOk \in BOOLEAN :
         IF stepOk
         THEN /\ opc' = "emit"
              /\ UNCHANGED <<ostatus, oerror>>
         ELSE /\ ostatus' = "failed"
              /\ oerror' = "flow error"
              /\ opc' = opc
    /\ UNCHANGED Args
    /\ UNCHANGED <<emitted, queue, senderAlive, receiverAlive, pc, result>>
    /\ UNCHANGED RendVars

\* The milestone of the completed step is sent into the channel; after the
\* last one the flow returns Ok.  A send to a dropped receiver returns the
\* event in an error, which the flow either ignores, going on as if the event
\* were emitted, or returns, the step having emitted nothing.
OrchestratorEmit ==
    /\ pc = "service" /\ ostatus = "running" /\ opc = "emit"
    /\ SendReady(queue)
    /\ LET ev == script[Len(emitted) + 1] IN
         \/ /\ emitted' = Append(emitted, ev)
            /\ queue' = Send(queue, receiverAlive, ev)
            /\ ostatus' = IF Len(emitted') = Len(script) THEN "ok" ELSE "running"
            /\ opc' = IF Len(emitted') = Len(script) THEN "finished" ELSE "work"
            /\ oerror' = oerror
         \/ /\ ~receiverAlive
            /\ emitted' = emitted
            /\ queue' = Send(queue, receiverAlive, ev)
            /\ ostatus' = "failed"
            /\ oerror' = "send error"
            /\ opc' = opc
    /\ UNCHANGED Args
    /\ UNCHANGED <<senderAlive, receiverAlive, pc, result>>
    /\ UNCHANGED RendVars

\* Any step of the Orchestrator block (lines 331-378).
OrchestratorStep ==
    DecodeHex \/ FromSec1 \/ CheckAmount \/ OrchestratorWork \/ OrchestratorEmit

\* The service entry point has been called.
ServiceInvoked == opc \in {"check_amount", "work", "emit", "finished"}

\* The future of execute is dropped by its caller while it awaits a step of
\* the flow: its locals are dropped, ibc_service with the sender and the
\* JoinHandle, which detaches the Renderer task.
Cancel ==
    /\ pc = "service" /\ ostatus = "running" /\ opc = "work"
    /\ ostatus' = "cancelled"
    /\ senderAlive' = ScopeExit(senderAlive)
    /\ pc' = "cancelled"
    /\ UNCHANGED Args
    /\ UNCHANGED <<opc, oerror, emitted, queue, receiverAlive, result>>
    /\ UNCHANGED RendVars

\* `?` on an Err (lines 364, 367, 379): execute returns the error; leaving the
\* function drops ibc_service with the sender, and drops the JoinHandle, which
\* detaches the Renderer task without waiting for it.
ErrorReturn ==
    /\ pc = "service" /\ ostatus = "failed"
    /\ senderAlive' = ScopeExit(senderAlive)
    /\ pc' = "returned"
    /\ result' = ExecuteResult(ostatus, rpc)
    /\ UNCHANGED Args
    /\ UNCHANGED <<queue, receiverAlive>>
    /\ UNCHANGED OrchVars
    /\ UNCHANGED RendVars

\* `?` on an Ok, then the end of the block (line 380) drops ibc_service and
\* with it the sender.
ScopeEnd ==
    /\ pc = "service" /\ ostatus = "ok"
    /\ senderAlive' = ScopeExit(senderAlive)
    /\ pc' = "join"
    /\ UNCHANGED Args
    /\ UNCHANGED <<queue, receiverAlive, result>>
    /\ UNCHANGED OrchVars
    /\ UNCHANGED RendVars

\* handle.await.context("unable to join async task")? (line 382): completes
\* when the Renderer task has returned, with the task's result.
JoinEarly ==
    /\ pc = "join"
    /\ pc' = "returned"
    /\ result' = ExecuteResult(ostatus, rpc)
    /\ UNCHANGED Args
    /\ UNCHANGED <<queue, senderAlive, receiverAlive>>
    /\ UNCHANGED OrchVars
    /\ UNCHANGED RendVars
Join ==
    /\ pc = "join" /\ rpc \in {"done", "failed"}
    /\ pc' = "returned"
    /\ result' = ExecuteResult(ostatus, rpc)
    /\ UNCHANGED Args
    /\ UNCHANGED <<queue, senderAlive, receiverAlive>>
    /\ UNCHANGED OrchVars
    /\ UNCHANGED RendVars

----------------------------------------------------------------------------
(* The Renderer task *)

\* while let Some(event) = receiver.recv().await (line 106); on None the loop
\* ends and the task returns Ok(()) (line 325), dropping the receiver.
RendererRecv ==
    /\ rpc = "recv"
    /\ LET r == Recv(queue, senderAlive) IN
         /\ r.kind # "pending"
         /\ IF r.kind = "some"
            THEN /\ cur' = r.ev
                 /\ taken' = Append(taken, r.ev)
                 /\ queue' = r.rest
                 /\ rpc' = "render"
                 /\ receiverAlive' = receiverAlive
            ELSE /\ rpc' = "done"
                 /\ queue' = <<>>
                 /\ receiverAlive' = FALSE
                 /\ UNCHANGED <<cur, taken>>
    /\ UNCHANGED Args
    /\ UNCHANGED <<senderAlive, pc, result, rendered, rerror>>
    /\ UNCHANGED OrchVars

\* The match on the event (lines 107-322): the arm's writes succeed and the
\* loop continues, or a write fails and `?` returns the error, or the
\* catch-all arm bails.  Returning drops the receiver and what it buffers.
RendererRender ==
    /\ rpc = "render"
    /\ \E ioOk \in BOOLEAN :
         LET out == RenderOutcome(cur, ioOk) IN
           IF out = "ok"
           THEN /\ rendered' = Append(rendered, cur)
                /\ rpc' = "recv"
                /\ UNCHANGED <<rerror, queue, receiverAlive>>
           ELSE /\ rpc' = "failed"
                /\ rerror' = out
                /\ queue' = <<>>
                /\ receiverAlive' = FALSE
                /\ rendered' = rendered
    /\ UNCHANGED Args
    /\ UNCHANGED <<senderAlive, pc, result, cur, taken>>
    /\ UNCHANGED OrchVars

----------------------------------------------------------------------------
(* Specifications *)

Next ==
    \/ DecodeHex
    \/ FromSec1
    \/ CheckAmount
    \/ OrchestratorWork
    \/ OrchestratorEmit
    \/ ErrorReturn
    \/ ScopeEnd
    \/ Join
    \/ RendererRecv
    \/ RendererRender

\* Every interleaving of the two tasks on the flows of IbcService.
Spec == Init /\ [][Next]_vars

\* The same program with any events arriving at the Renderer.
SpecAny == InitAny /\ [][Next]_vars

\* The tasks are scheduled by the tokio runtime: a step of execute that can be
\* taken is taken, and so is a step of the Renderer task while execute has not
\* returned.  After execute has returned with the JoinHandle dropped, nothing
\* here keeps the runtime alive for the detached task, so no step of it is
\* guaranteed.
Fairness ==
    /\ WF_vars(DecodeHex)
    /\ WF_vars(FromSec1)
    /\ WF_vars(CheckAmount)
    /\ WF_vars(OrchestratorWork)
    /\ WF_vars(OrchestratorEmit)
    /\ WF_vars(ErrorReturn)
    /\ WF_vars(ScopeEnd)
    /\ WF_vars(Join)
    /\ WF_vars(pc # "returned" /\ RendererRecv)
    /\ WF_vars(pc # "returned" /\ RendererRender)

FairSpec == Spec /\ Fairness

\* The invocation from the command line on: rejected, or execute.
NextCli == Invoke \/ Next

SpecCli == InitCli /\ [][NextCli]_vars

\* execute with a caller that may drop its future.
NextCancel == Next \/ Cancel

SpecCancel == Init /\ [][NextCancel]_vars

----------------------------------------------------------------------------
(* Properties *)

\* C1: in every reachable state the events the Renderer has taken from the
\* channel are a prefix of the events the Orchestrator has emitted, and while
\* the receiver lives the emitted events are exactly the taken ones followed
\* by the buffered ones: no reordering, no duplicate, no skipped event.
C1_DeliveredInEmissionOrder ==
    /\ IsPrefix(taken, emitted)
    /\ receiverAlive => emitted = taken \o queue

\* The Renderer is part-way through a stream that the Orchestrator is still
\* producing.
C1_Witness ==
    /\ ostatus = "running"
    /\ Len(taken) >= 2
    /\ Len(queue) >= 1

C3_ResultReconciled ==
    /\ (pc = "returned" /\ (ostatus = "failed" \/ rpc = "failed"))
           => result \in {"orchestrator_error", "renderer_error"}
    /\ result = "ok" => (pc = "returned" /\ ostatus = "ok" /\ rpc = "done")

\* The Orchestrator succeeded, the Renderer failed, execute returned.
C3_Witness ==
    /\ pc = "returned" /\ ostatus = "ok" /\ rpc = "failed"
    /\ result = "renderer_error"

\* C4: when both the Orchestrator and the Renderer have failed, the error
\* execute returned is the Orchestrator's.
C4_OrchestratorErrorPrimary ==
    (pc = "returned" /\ ostatus = "failed" /\ rpc = "failed")
        => result = "orchestrator_error"

C4_Witness ==
    /\ pc = "returned" /\ ostatus = "failed" /\ rpc = "failed"
    /\ oerror = "flow error" /\ rerror = "io error"

\* C5: when both the Orchestrator and the Renderer have failed, both failures
\* are observable to the caller of execute.
C5_BothFailuresObservable ==
    (pc = "returned" /\ ostatus = "failed" /\ rpc = "failed")
        => {"orchestrator_error", "renderer_error"} \subseteq Observable

\* C6: when execute has returned, the Renderer has finished, and unless it
\* failed it has rendered every event emitted.
C6_WaitsForRenderer ==
    pc = "returned"
        => /\ rpc \in {"done", "failed"}
           /\ rpc = "done" => rendered = emitted

C8_NoEventLost ==
    /\ [](rpc = "done" => (queue = <<>> /\ taken = emitted))
    /\ ([](rpc # "failed")) => <>[](rendered = emitted)

\* C9: while the Orchestrator runs it can always take its next step, whatever
\* the Renderer has or has not done and however many events are buffered.
C9_EmitNeverBlocks ==
    (pc = "service" /\ ostatus = "running") => ENABLED OrchestratorStep

\* The whole Connect flow has run to completion before the Renderer's first step.
C9_Witness ==
    /\ cmd = "Connect" /\ ostatus = "ok"
    /\ taken = <<>> /\ queue = ConnectEvents

\* C10 as stated: the Renderer has failed only on an event outside the
\* vocabulary.
C10_Original ==
    rpc = "failed" => cur \notin IbcVocabulary

\* C10 amended: the Renderer has failed only on an event outside the
\* vocabulary, with "non-ibc event in ibc command", or on a failed write for
\* an event of the vocabulary; a step on an event of the vocabulary renders it
\* and continues unless the write fails.
C10_FailsOnlyOnForeignOrIo ==
    /\ [](rpc = "failed" =>
            \/ cur \notin IbcVocabulary /\ rerror = "non-ibc event in ibc command"
            \/ cur \in IbcVocabulary /\ rerror = "io error")
    /\ [](rerror # "none" => rpc = "failed")
    /\ [][(rpc = "render" /\ cur \in IbcVocabulary /\ rpc' # rpc)
            => \/ rpc' = "recv" /\ rendered' = Append(rendered, cur)
               \/ rpc' = "failed" /\ rerror' = "io error"]_vars

\* The Renderer has rendered an event of the vocabulary and then failed on a
\* foreign one.
C10_Witness ==
    /\ rpc = "failed" /\ cur = NonIbcEvent
    /\ Len(rendered) >= 1

\* C11: in an UpdateSigner invocation whose new_public_key is not valid hex,
\* or decodes to bytes that are no curve point, update_signer is never
\* invoked, no event is emitted, the Orchestrator block never succeeds, and
\* what execute returns is the error naming the failed conversion.
C11_InvalidKeyRejected ==
    (cmd = "UpdateSigner" /\ key \in {"not_hex", "hex_not_point"})
        => /\ ~ServiceInvoked
           /\ emitted = <<>> /\ queue = <<>> /\ taken = <<>>
           /\ ostatus # "ok" /\ pc # "join"
           /\ pc = "returned"
                => /\ result = "orchestrator_error"
                   /\ oerror = IF key = "not_hex"
                               THEN "unable to decode hex bytes"
                               ELSE "invalid secp256k1 bytes"

\* Hex that decodes to no curve point has been rejected and execute returned.
C11_Witness ==
    /\ cmd = "UpdateSigner" /\ key = "hex_not_point"
    /\ pc = "returned" /\ result = "orchestrator_error"
    /\ oerror = "invalid secp256k1 bytes"

\* An UpdateSigner invocation whose public_key_algo is not supported, or is
\* eth-secp256k1 in a build without that capability.
UnsupportedAlgo ==
    /\ cmd = "UpdateSigner"
    /\ \/ algo \notin {"secp256k1", "eth-secp256k1"}
       \/ algo = "eth-secp256k1" /\ ~ethermint

\* C12: an UpdateSigner invocation with an unsupported or disabled
\* public_key_algo is rejected before execute does anything: no channel,
\* no Renderer, update_signer never invoked, no event emitted; and rejection
\* is the only outcome of parsing it.
C12_UnsupportedAlgoRejected ==
    /\ [](UnsupportedAlgo
            => /\ pc \in {"parse", "rejected"}
               /\ ~ServiceInvoked /\ opc = "decode_hex" /\ ostatus = "running"
               /\ emitted = <<>> /\ queue = <<>>
               /\ ~senderAlive /\ rpc = "unspawned"
               /\ result = "pending")
    /\ [][(UnsupportedAlgo /\ pc = "parse") => pc' = "rejected"]_vars

\* eth-secp256k1 has been rejected in a build without the ethermint feature.
C12_Witness ==
    /\ cmd = "UpdateSigner" /\ algo = "eth-secp256k1" /\ ~ethermint
    /\ key = "hex_point"
    /\ pc = "rejected"

\* C13: in a Send or Receive invocation at most one event is emitted and it is
\* of the invocation's kind (TokensSent for Send, TokensReceived for Receive);
\* when the flow has succeeded the amount was positive, the denom valid and
\* exactly that one event was emitted; with amount 0 or a malformed denom the
\* invocation is rejected with no event emitted and no transfer step taken.
C13_OneTransferEvent ==
    cmd \in {"Send", "Receive"}
        => /\ Len(emitted) <= 1
           /\ \A i \in 1..Len(emitted) :
                emitted[i] = (IF cmd = "Send" THEN "TokensSent" ELSE "TokensReceived")
           /\ ostatus = "ok"
                => /\ amount > 0 /\ denom = "valid"
                   /\ Len(emitted) = 1
           /\ (amount = 0 \/ denom = "malformed")
                => /\ emitted = <<>> /\ queue = <<>>
                   /\ ostatus # "ok"
                   /\ opc = "check_amount"

\* A Send of a positive amount has succeeded and its event was rendered.
C13_Witness ==
    /\ cmd = "Send" /\ amount > 0 /\ denom = "valid"
    /\ ostatus = "ok"
    /\ emitted = << "TokensSent" >> /\ rendered = << "TokensSent" >>

\* C14: when a Connect flow has failed, the events emitted are the milestones
\* of the steps before the failing one, in order, there are at most ten of
\* them, ConnectionEstablished is not among them, and while the receiver lives
\* they are exactly what the channel has carried; after the failure nothing
\* more is emitted, and an emitted event is never retracted.
C14_FailedConnectEmitsPrefix ==
    /\ []((cmd = "Connect" /\ ostatus = "failed")
            => /\ IsPrefix(emitted, ConnectEvents)
               /\ Len(emitted) <= 10
               /\ "ConnectionEstablished" \notin Range(emitted)
               /\ receiverAlive => taken \o queue = emitted)
    /\ [][(cmd = "Connect" /\ ostatus = "failed") => emitted' = emitted]_vars
    /\ [][cmd = "Connect" => IsPrefix(emitted, emitted')]_vars

\* The flow failed at step 5 and execute returned its error.
C14_Witness ==
    /\ cmd = "Connect" /\ ostatus = "failed" /\ oerror = "flow error"
    /\ emitted = SubSeq(ConnectEvents, 1, 4)
    /\ pc = "returned"

NoDuplicate(s) == \A i, j \in 1..Len(s) : i # j => s[i] # s[j]

\* C15: no event is emitted twice; the flow's success milestone is emitted
\* only as the last event and only by a flow that succeeds, and a flow that
\* succeeded ends with it; when execute is past the Orchestrator block the
\* flow has succeeded or failed and the sender is dropped; nothing is emitted
\* after the flow's end or after the drop; and that end is always reached.
C15_StreamShape ==
    /\ [](NoDuplicate(emitted))
    /\ [](\A i \in 1..Len(emitted) :
            emitted[i] = SuccessMilestone(cmd)
                => (i = Len(emitted) /\ ostatus = "ok"))
    /\ [](ostatus = "ok"
            => (emitted # <<>> /\ emitted[Len(emitted)] = SuccessMilestone(cmd)))
    /\ [](pc \in {"join", "returned"}
            => (ostatus \in {"ok", "failed"} /\ ~senderAlive))
    /\ [][(ostatus # "running") => emitted' = emitted]_vars
    /\ [][~senderAlive => (emitted' = emitted /\ ~senderAlive')]_vars
    /\ <>(ostatus \in {"ok", "failed"} /\ ~senderAlive)

\* A Connect flow ended with ConnectionEstablished and the channel is closed.
C15_Witness ==
    /\ cmd = "Connect" /\ ostatus = "ok" /\ ~senderAlive
    /\ Len(emitted) = 11 /\ emitted[11] = "ConnectionEstablished"

\* C16: an event outside the vocabulary is never rendered; once the Renderer
\* has taken one it takes nothing more, its next step fails with "non-ibc
\* event in ibc command", and what it rendered is what it took before; a
\* failed Renderer renders and takes nothing further; and execute, once
\* returned, has returned a failure, the Renderer's if the Orchestrator
\* succeeded.
C16_NonIbcEventAborts ==
    /\ [](NonIbcEvent \notin Range(rendered))
    /\ [](\A i \in 1..Len(taken) :
            taken[i] = NonIbcEvent
                => (i = Len(taken) /\ rpc \in {"render", "failed"}))
    /\ []((rpc = "failed" /\ cur = NonIbcEvent)
            => /\ rerror = "non-ibc event in ibc command"
               /\ rendered = SubSeq(taken, 1, Len(taken) - 1))
    /\ [][(rpc = "render" /\ cur = NonIbcEvent /\ rpc' # rpc)
            => (rpc' = "failed" /\ rerror' = "non-ibc event in ibc command")]_vars
    /\ [][(rpc = "failed")
            => (rpc' = "failed" /\ rendered' = rendered /\ taken' = taken)]_vars
    /\ []((pc = "returned" /\ rerror = "non-ibc event in ibc command")
            => /\ result \in {"orchestrator_error", "renderer_error"}
               /\ ostatus = "ok" => result = "renderer_error")

\* The Orchestrator succeeded after sending a foreign event and then another
\* event; the Renderer failed on the first, rendered nothing, and execute
\* returned the Renderer's failure.
C16_Witness ==
    /\ Len(script) = 2 /\ script[1] = NonIbcEvent /\ emitted = script
    /\ ostatus = "ok" /\ rpc = "failed" /\ rendered = <<>>
    /\ pc = "returned" /\ result = "renderer_error"

\* An event of the IBC vocabulary that the invoked flow does not emit.
OtherFlowEvent(ev) == ev \in IbcVocabulary /\ ev \notin Range(FlowEvents(cmd))

\* C17 as stated: the Renderer never renders an event of another flow's
\* vocabulary.
C17_Original ==
    \A i \in 1..Len(rendered) : ~OtherFlowEvent(rendered[i])

\* C17 amended: the Renderer handles the whole IBC vocabulary whatever the
\* invoked flow: on an event of another flow's vocabulary its step renders the
\* event and continues, failing only if the write fails; the failure "non-ibc
\* event in ibc command" only ever comes from an event outside the IBC
\* vocabulary.
C17_RendererNotFlowScoped ==
    /\ [][(rpc = "render" /\ OtherFlowEvent(cur) /\ rpc' # rpc)
            => \/ rpc' = "recv" /\ rendered' = Append(rendered, cur)
               \/ rpc' = "failed" /\ rerror' = "io error"]_vars
    /\ [](rerror = "non-ibc event in ibc command" => cur = NonIbcEvent)
    /\ [](Range(rendered) \subseteq IbcVocabulary)

\* A Send invocation has rendered CreatedSoloMachineClient.
C17_Witness ==
    /\ cmd = "Send"
    /\ "CreatedSoloMachineClient" \in Range(rendered)
    /\ rpc = "recv"

C19_SuccessMeansAllRendered ==
    result = "ok"
        => /\ rpc = "done" /\ queue = <<>>
           /\ rendered = emitted /\ taken = emitted
           /\ emitted = FlowEvents(cmd)
           /\ rendered[Len(rendered)] = SuccessMilestone(cmd)

\* A Connect invocation returned success with its eleven events rendered.
C19_Witness ==
    /\ cmd = "Connect" /\ pc = "returned" /\ result = "ok"
    /\ Len(rendered) = 11

====
